---- MODULE Spec2Model ----
(***************************************************************************)
(* A model of merge2: the Merge trait's default implementations, the       *)
(* strategy functions of src/src/lib.rs, and the merge method the derive   *)
(* macro of src/merge2_derive/src/lib.rs generates for a struct.           *)
(*                                                                         *)
(* Every strategy has the signature fn(left: &mut T, right: &mut T); it is *)
(* modelled as an operator from the two values before the call to the pair *)
(* [left, right] of the two values after it.                                *)
(***************************************************************************)
EXTENDS Integers, Sequences, FiniteSets, TLC

VARIABLES
    ty,      \* the Rust type of the two operands
    left,    \* the value behind `left` / `self`
    right,   \* the value behind `right` / `other`
    left0,   \* `left` as the caller constructed it
    right0,  \* `right` as the caller constructed it
    op,      \* the function called last, "none" before any call
    decl,    \* the struct declaration the derive macro was given (structs only)
    trace,   \* the statements of the derived merge, in the order they ran
    sources, \* the values a layered caller merges into `left`, in order
    done,    \* how many of `sources` have been merged
    again    \* how often `op` was called again on the same two objects

vars == <<ty, left, right, left0, right0, op, decl, trace, sources, done, again>>

----------------------------------------------------------------------------
(* Bounds of the model.                                                    *)

\* numbers are drawn within MaxNum of 0 and of each end of the type's range
MaxNum == 2
\* longest vector and string drawn
MaxLen == 2
\* most values a layered caller merges into one target
MaxSources == 2
\* most repeated calls of one function on the same two objects
MaxAgain == 1
\* vector elements and map values are 1..MaxElem
MaxElem == 2
\* map keys are 1..MaxKey
MaxKey == 2

(* Ranges of the integer types the strategies are tested with.             *)
U8_MAX == 255
I8_MIN == -128
I8_MAX == 127

----------------------------------------------------------------------------
(* Values.                                                                 *)

None == [is_some |-> FALSE]
Some(x) == [is_some |-> TRUE, val |-> x]
is_none(o) == ~o.is_some

EmptyMap == [k \in {} |-> 0]

\* the pair of values a call leaves behind its two references
LR(l, r) == [left |-> l, right |-> r]

IntTypes == {"u8", "i8"}

MinOf(t) == IF t = "u8" THEN 0 ELSE I8_MIN
MaxOf(t) == IF t = "u8" THEN U8_MAX ELSE I8_MAX

\* <T as Default>::default()
Default(t) ==
    CASE t \in IntTypes -> 0
      [] t = "bool" -> FALSE
      [] t = "Option" -> None
      [] t = "str" -> ""
      [] t = "String" -> ""
      [] t = "Vec" -> <<>>
      [] t = "HashMap" -> EmptyMap

\* core::mem::swap(left, right)
mem_swap(l, r) == LR(r, l)

\* *left = core::mem::take(right)
assign_take(t, l, r) == LR(r, Default(t))

\* String::is_empty, str::is_empty, Vec::is_empty
is_empty(v) == Len(v) = 0

map_is_empty(m) == DOMAIN m = {}

----------------------------------------------------------------------------
(* Sets the operands are drawn from.                                       *)

RECURSIVE SeqsUpTo(_, _)
SeqsUpTo(S, n) ==
    IF n = 0 THEN {<<>>}
    ELSE LET P == SeqsUpTo(S, n - 1)
         IN  P \cup {Append(s, e) : s \in {p \in P : Len(p) = n - 1}, e \in S}

Chars == {"a", "b"}

RECURSIVE StringsUpTo(_)
StringsUpTo(n) ==
    IF n = 0 THEN {""}
    ELSE LET P == StringsUpTo(n - 1)
         IN  P \cup {s \o c : s \in {p \in P : Len(p) = n - 1}, c \in Chars}

Near(a, b) == {n \in a..b : \/ n - a <= MaxNum
                            \/ b - n <= MaxNum
                            \/ (n >= -MaxNum /\ n <= MaxNum)}

Elems == 1..MaxElem
Keys == 1..MaxKey

Maps == UNION {[D -> Elems] : D \in SUBSET Keys}

ValuesOf(t) ==
    CASE t \in IntTypes -> Near(MinOf(t), MaxOf(t))
      [] t = "bool" -> BOOLEAN
      [] t = "Option" -> {None} \cup {Some(x) : x \in Elems}
      [] t = "str" -> StringsUpTo(1)
      [] t = "String" -> StringsUpTo(MaxLen)
      [] t = "Vec" -> SeqsUpTo(Elems, MaxLen)
      [] t = "HashMap" -> Maps

\* the orders in which a HashMap with key set D may be iterated
Orders(D) == {s \in SeqsUpTo(D, Cardinality(D)) :
                 /\ Len(s) = Cardinality(D)
                 /\ {s[i] : i \in DOMAIN s} = D}

----------------------------------------------------------------------------
(* The default implementations of Merge.                                   *)

\* a faulty Option merge that lets a non-empty `right` win
Option_merge_RightWins(l, r) == IF is_none(r) THEN LR(l, r) ELSE mem_swap(l, r)

\* impl<T> Merge for Option<T>
Option_merge(l, r) == IF is_none(l) THEN mem_swap(l, r) ELSE LR(l, r)

\* a faulty primitive merge that overwrites a default-valued target
skip_merge_OverwriteDefault(t, l, r) == IF l = Default(t) THEN LR(r, r) ELSE LR(l, r)

\* skip_merge!(u8, i8, ..., bool): fn merge(&mut self, _: &mut Self) {}
skip_merge(t, l, r) == LR(l, r)

\* impl Merge for &str
str_merge(l, r) == IF is_empty(l) THEN mem_swap(l, r) ELSE LR(l, r)

\* a faulty String merge that appends to a non-empty target
String_merge_Appends(l, r) == LR(l \o r, "")

\* impl Merge for String
String_merge(l, r) == IF is_empty(l) THEN mem_swap(l, r) ELSE LR(l, r)

\* a faulty Vec merge that appends to a non-empty target
Vec_merge_Appends(l, r) == LR(l \o r, <<>>)

\* impl<T> Merge for Vec<T>
Vec_merge(l, r) == IF is_empty(l) THEN mem_swap(l, r) ELSE LR(l, r)

\* impl<K, V> Merge for HashMap<K, V>
HashMap_merge(l, r) == IF map_is_empty(l) THEN mem_swap(l, r) ELSE LR(l, r)

\* <T as Merge>::merge, resolved by the operand type
Merge_merge(t, l, r) ==
    CASE t \in IntTypes \cup {"bool"} -> skip_merge(t, l, r)
      [] t = "Option" -> Option_merge(l, r)
      [] t = "str" -> str_merge(l, r)
      [] t = "String" -> String_merge(l, r)
      [] t = "Vec" -> Vec_merge(l, r)
      [] t = "HashMap" -> HashMap_merge(l, r)

----------------------------------------------------------------------------
(* Strategies of the modules any, bool, num and ord.                       *)

\* a faulty any::overwrite that copies `right` and leaves it in place
any_overwrite_Copy(t, l, r) == LR(r, r)

any_overwrite(t, l, r) == assign_take(t, l, r)

\* a faulty any::overwrite_default that swaps whatever `left` holds
any_overwrite_default_Always(t, l, r) == mem_swap(l, r)

any_overwrite_default(t, l, r) == IF l = Default(t) THEN mem_swap(l, r) ELSE LR(l, r)

any_swap(l, r) == mem_swap(l, r)

bool_overwrite_false(l, r) == IF ~l THEN LR(r, r) ELSE LR(l, r)

\* a faulty bool::overwrite_true that tests for false, like overwrite_false
bool_overwrite_true_TestsFalse(l, r) == IF ~l THEN LR(r, r) ELSE LR(l, r)

bool_overwrite_true(l, r) == IF l THEN LR(r, r) ELSE LR(l, r)

\* an addition that wraps around instead of saturating
SaturatingAdd_Wrapping(t, a, b) ==
    LET w == MaxOf(t) - MinOf(t) + 1
    IN  ((a + b - MinOf(t)) % w) + MinOf(t)

\* num_traits::SaturatingAdd::saturating_add for the primitive integers
SaturatingAdd(t, a, b) ==
    IF a + b > MaxOf(t) THEN MaxOf(t)
    ELSE IF a + b < MinOf(t) THEN MinOf(t)
    ELSE a + b

\* a faulty num::saturating_add that adds with wrap-around
num_saturating_add_Wrapping(t, l, r) == LR(SaturatingAdd_Wrapping(t, l, r), r)

\* num::saturating_add
num_saturating_add(t, l, r) == LR(SaturatingAdd(t, l, r), r)

\* PartialOrd::partial_cmp on the primitive integers
partial_cmp(a, b) == IF a < b THEN Some("Less")
                     ELSE IF a > b THEN Some("Greater")
                     ELSE Some("Equal")

\* a faulty max_def that takes `right` when `left` is the greater
ord_max_def_Inverted(t, l, r) ==
    IF partial_cmp(l, r) = Some("Greater") THEN assign_take(t, l, r) ELSE LR(l, r)

ord_max_def(t, l, r) ==
    IF partial_cmp(l, r) = Some("Less") THEN assign_take(t, l, r) ELSE LR(l, r)

ord_min_def(t, l, r) ==
    IF partial_cmp(l, r) = Some("Greater") THEN assign_take(t, l, r) ELSE LR(l, r)

ord_max_swap(l, r) ==
    IF partial_cmp(l, r) = Some("Less") THEN mem_swap(l, r) ELSE LR(l, r)

ord_min_swap(l, r) ==
    IF partial_cmp(l, r) = Some("Greater") THEN mem_swap(l, r) ELSE LR(l, r)

----------------------------------------------------------------------------
(* Strategies of the modules string and vec.                               *)

\* let new = take(right); left.push_str(&new)
string_append(l, r) == LR(l \o r, Default("String"))

\* a faulty string::prepend that puts `right` after `left`
string_prepend_Appends(l, r) == LR(l \o r, "")

\* right.push_str(left); *left = take(right)
string_prepend(l, r) == assign_take("String", l, r \o l)

\* Vec::append(&mut self, other): moves all of other to the end of self
Vec_append(self, other) == LR(self \o other, <<>>)

\* a faulty vec::append that loses `right` when `left` is empty
vec_append_NoSwap(l, r) == IF is_empty(l) THEN LR(l, r) ELSE Vec_append(l, r)

\* a faulty vec::append that copies `right` instead of swapping when `left`
\* is empty
vec_append_Copies(l, r) == IF is_empty(l) THEN LR(r, r) ELSE Vec_append(l, r)

\* vec::append
vec_append(l, r) == IF is_empty(l) THEN mem_swap(l, r) ELSE Vec_append(l, r)

\* vec::prepend: right.append(left); swap(left, right)
vec_prepend(l, r) ==
    LET a == Vec_append(r, l)  \* a.left is `right`, a.right is `left`
    IN  mem_swap(a.right, a.left)

----------------------------------------------------------------------------
(* Strategies of the module hashmap.  `order` is the order in which the    *)
(* taken map is iterated: HashMap's iteration order is arbitrary.          *)

\* HashMap::insert(k, v)
insert(m, k, v) == [x \in DOMAIN m \cup {k} |-> IF x = k THEN v ELSE m[x]]

\* a faulty entry step that overwrites an occupied entry
entry_or_insert_Overwrites(m, k, v) == insert(m, k, v)

\* left.entry(k).or_insert(v)
entry_or_insert(m, k, v) == IF k \in DOMAIN m THEN m ELSE insert(m, k, v)

RECURSIVE hashmap_merge_loop(_, _, _)
\* for (k, v) in map { left.entry(k).or_insert(v); }
hashmap_merge_loop(l, map, order) ==
    IF order = <<>> THEN l
    ELSE hashmap_merge_loop(entry_or_insert(l, Head(order), map[Head(order)]),
                            map, Tail(order))

\* hashmap::merge
hashmap_merge(l, r, order) == LR(hashmap_merge_loop(l, r, order), Default("HashMap"))

RECURSIVE HashMap_extend(_, _, _)
\* Extend::extend for HashMap: inserts every pair of the iterator
HashMap_extend(l, map, order) ==
    IF order = <<>> THEN l
    ELSE HashMap_extend(insert(l, Head(order), map[Head(order)]), map, Tail(order))

\* hashmap::replace
hashmap_replace(l, r, order) == LR(HashMap_extend(l, r, order), Default("HashMap"))

----------------------------------------------------------------------------
(* The derive macro (src/merge2_derive/src/lib.rs).                        *)
(* A struct declaration is [attrs, fields]: the FieldAttr items of the     *)
(* struct's own #[merge(...)] attributes, and the fields in declaration    *)
(* order, each [ident, ty, attrs] with ident None in a tuple struct.       *)

FieldAttr_Skip == [tag |-> "Skip"]
FieldAttr_Strategy(path) == [tag |-> "Strategy", path |-> path]

\* #[derive(Default)] struct FieldAttrs
FieldAttrs_default == [skip |-> FALSE, strategy |-> None]

\* FieldAttrs::apply
FieldAttrs_apply(self, attr) ==
    IF attr.tag = "Skip" THEN [self EXCEPT !.skip = TRUE]
    ELSE [self EXCEPT !.strategy = Some(attr.path)]

RECURSIVE FieldAttrs_fold(_, _)
\* for attr in ... { field_attrs.apply(attr); }
FieldAttrs_fold(field_attrs, iter) ==
    IF iter = <<>> THEN field_attrs
    ELSE FieldAttrs_fold(FieldAttrs_apply(field_attrs, Head(iter)), Tail(iter))

\* impl From<I> for FieldAttrs
FieldAttrs_from(iter) == FieldAttrs_fold(FieldAttrs_default, iter)

\* impl From<(usize, &syn::Field)> for Field
Field_from(index, field) ==
    [name |-> IF field.ident.is_some THEN field.ident.val ELSE index,
     attrs |-> FieldAttrs_from(field.attrs)]

\* a faulty gen_assignment that lets the struct's default strategy win
gen_assignment_DefaultFirst(field, default_strategy) ==
    IF default_strategy.strategy.is_some
    THEN [call |-> default_strategy.strategy.val, name |-> field.name]
    ELSE IF field.attrs.strategy.is_some
    THEN [call |-> field.attrs.strategy.val, name |-> field.name]
    ELSE [call |-> "Merge::merge", name |-> field.name]

\* gen_assignment: the statement `call(&mut self.name, &mut other.name);`
gen_assignment(field, default_strategy) ==
    IF field.attrs.strategy.is_some
    THEN [call |-> field.attrs.strategy.val, name |-> field.name]
    ELSE IF default_strategy.strategy.is_some
    THEN [call |-> default_strategy.strategy.val, name |-> field.name]
    ELSE [call |-> "Merge::merge", name |-> field.name]

\* fields.iter().enumerate().map(Field::from)
enumerate_fields(fields) == [i \in DOMAIN fields |-> Field_from(i - 1, fields[i])]

not_skip(f) == ~f.attrs.skip

\* a faulty gen_assignments that does not filter the skipped fields out
gen_assignments_NoFilter(fields, default_strategy) ==
    LET fs == enumerate_fields(fields)
    IN  [i \in DOMAIN fs |-> gen_assignment(fs[i], default_strategy)]

\* a faulty gen_assignments that emits the statements last field first
gen_assignments_Reversed(fields, default_strategy) ==
    LET kept == SelectSeq(enumerate_fields(fields), not_skip)
    IN  [i \in DOMAIN kept |-> gen_assignment(kept[Len(kept) + 1 - i], default_strategy)]

\* gen_assignments
gen_assignments(fields, default_strategy) ==
    LET kept == SelectSeq(enumerate_fields(fields), not_skip)
    IN  [i \in DOMAIN kept |-> gen_assignment(kept[i], default_strategy)]

\* the function a strategy path names, called on one field's two values
call_path(path, t, l, r) ==
    CASE path = "Merge::merge" -> Merge_merge(t, l, r)
      [] path = "any::overwrite" -> any_overwrite(t, l, r)
      [] path = "any::overwrite_default" -> any_overwrite_default(t, l, r)
      [] path = "any::swap" -> any_swap(l, r)
      [] path = "bool::overwrite_false" -> bool_overwrite_false(l, r)
      [] path = "bool::overwrite_true" -> bool_overwrite_true(l, r)
      [] path = "num::saturating_add" -> num_saturating_add(t, l, r)
      [] path = "ord::max_def" -> ord_max_def(t, l, r)
      [] path = "ord::min_def" -> ord_min_def(t, l, r)
      [] path = "ord::max_swap" -> ord_max_swap(l, r)
      [] path = "ord::min_swap" -> ord_min_swap(l, r)
      [] path = "string::append" -> string_append(l, r)
      [] path = "string::prepend" -> string_prepend(l, r)
      [] path = "vec::append" -> vec_append(l, r)
      [] path = "vec::prepend" -> vec_prepend(l, r)

\* the member a statement names: by identifier, or by index in a tuple struct
member_ty(fields, name) ==
    LET fs == enumerate_fields(fields)
    IN  fields[CHOOSE i \in DOMAIN fs : fs[i].name = name].ty

RECURSIVE run_assignments_SharedIncoming(_, _, _, _)
\* a body whose statements all take the incoming value from the first member
\* of their type instead of from their own member
run_assignments_SharedIncoming(assignments, fields, self, other) ==
    IF assignments = <<>> THEN LR(self, other)
    ELSE LET a == Head(assignments)
             t == member_ty(fields, a.name)
             fs == enumerate_fields(fields)
             first == CHOOSE i \in DOMAIN fs :
                         /\ fields[i].ty = t
                         /\ \A j \in DOMAIN fs : fields[j].ty = t => i <= j
             res == call_path(a.call, t, self[a.name], other[fs[first].name])
         IN  run_assignments_SharedIncoming(Tail(assignments), fields,
                             [self EXCEPT ![a.name] = res.left],
                             [other EXCEPT ![fs[first].name] = res.right])

RECURSIVE run_assignments(_, _, _, _)
\* the body of the generated merge: the statements, one after the other
run_assignments(assignments, fields, self, other) ==
    IF assignments = <<>> THEN LR(self, other)
    ELSE LET a == Head(assignments)
             res == call_path(a.call, member_ty(fields, a.name),
                              self[a.name], other[a.name])
         IN  run_assignments(Tail(assignments), fields,
                             [self EXCEPT ![a.name] = res.left],
                             [other EXCEPT ![a.name] = res.right])

\* impl_merge: default_strategy = FieldAttrs::from(input.attrs.iter())
impl_merge(d) == gen_assignments(d.fields, FieldAttrs_from(d.attrs))

\* impl_merge_for_struct: fn merge(&mut self, other: &mut Self) { #assignments }
derived_merge(d, self, other) == run_assignments(impl_merge(d), d.fields, self, other)

----------------------------------------------------------------------------
(* The strategies that merge recursively.  Their tests instantiate them    *)
(* with struct N(#[merge(strategy = num::saturating_add)] u8), whose merge  *)
(* is the derived one; Vec<u8> stands for an element type with a default    *)
(* merge.                                                                   *)

N(v) == [i \in {0} |-> v]

NDecl ==
    [attrs |-> <<>>,
     fields |-> <<[ident |-> None, ty |-> "u8",
                   attrs |-> <<FieldAttr_Strategy("num::saturating_add")>>]>>]

\* <T as Merge>::merge for the element type t
merge_of(t, l, r) ==
    IF t = "N" THEN derived_merge(NDecl, l, r) ELSE Merge_merge(t, l, r)

\* the element type of a container type
Inner(t) ==
    CASE t = "Option<N>" -> "N"
      [] t = "Option<Vec>" -> "Vec"
      [] t = "HashMap<N>" -> "N"
      [] t = "HashMap<Vec>" -> "Vec"

\* a faulty option::recursive that keeps a present `left` without merging
option_recursive_NoMerge(t, l, r) ==
    IF r.is_some /\ ~l.is_some THEN LR(r, None) ELSE LR(l, None)

\* a faulty option::recursive that reads `right` without taking it
option_recursive_KeepsIncoming(t, l, r) ==
    IF r.is_some
    THEN IF l.is_some THEN LR(Some(merge_of(t, l.val, r.val).left), r)
         ELSE LR(r, r)
    ELSE LR(l, r)

\* option::recursive, for Option<t>
option_recursive(t, l, r) ==
    IF r.is_some
    THEN LET new == r.val
         IN  IF l.is_some
             THEN LR(Some(merge_of(t, l.val, new).left), None)
             ELSE LR(Some(new), None)
    ELSE LR(l, None)

RECURSIVE hashmap_recursive_loop(_, _, _, _)
\* for (k, mut v) in map { match left.entry(k) { Occupied => merge, Vacant => insert } }
hashmap_recursive_loop(t, l, map, order) ==
    IF order = <<>> THEN l
    ELSE LET k == Head(order)
             v == map[k]
         IN  hashmap_recursive_loop(t,
                 IF k \in DOMAIN l
                 THEN [l EXCEPT ![k] = merge_of(t, l[k], v).left]
                 ELSE insert(l, k, v),
                 map, Tail(order))

\* a faulty hashmap::recursive that keeps left's value on a collision
hashmap_recursive_KeepsLeft(t, l, r, order) == hashmap_merge(l, r, order)

\* hashmap::recursive, for HashMap<K, t>
hashmap_recursive(t, l, r, order) ==
    LR(hashmap_recursive_loop(t, l, r, order), Default("HashMap"))

RECURSIVE hashmap_intersection_loop(_, _, _, _)
\* for (k, mut v) in map { if let Occupied(existing) = left.entry(k) { merge } }
hashmap_intersection_loop(t, l, map, order) ==
    IF order = <<>> THEN l
    ELSE LET k == Head(order)
             v == map[k]
         IN  hashmap_intersection_loop(t,
                 IF k \in DOMAIN l
                 THEN [l EXCEPT ![k] = merge_of(t, l[k], v).left]
                 ELSE l,
                 map, Tail(order))

\* a faulty hashmap::intersection that inserts the keys only `right` has
hashmap_intersection_Inserts(t, l, r, order) == hashmap_recursive(t, l, r, order)

\* hashmap::intersection, for HashMap<K, t>
hashmap_intersection(t, l, r, order) ==
    LR(hashmap_intersection_loop(t, l, r, order), Default("HashMap"))

----------------------------------------------------------------------------
(* The struct declarations and values the derived merge is run on: the     *)
(* User struct of the crate documentation and the tuple struct             *)
(* S(Option<usize>, Option<usize>) of the tests, under every combination   *)
(* of skip and strategy attributes drawn below.                            *)

NoDecl == [attrs |-> <<>>, fields |-> <<>>]

\* the strategies a field of type t is declared with
FieldStrategies(t) ==
    CASE t = "str" -> {"any::overwrite"}
      [] t = "Option" -> {"any::swap"}
      [] t = "Vec" -> {"vec::append", "vec::prepend"}

\* the strategies a struct declares as its default
DefaultStrategies == {"any::overwrite", "any::overwrite_default"}

FieldAttrLists(t) ==
    {<<>>, <<FieldAttr_Skip>>}
    \cup {<<FieldAttr_Strategy(p)>> : p \in FieldStrategies(t)}
    \cup {<<FieldAttr_Skip, FieldAttr_Strategy(p)>> : p \in FieldStrategies(t)}
    \cup {<<FieldAttr_Strategy(p), FieldAttr_Skip>> : p \in FieldStrategies(t)}

StructAttrLists == {<<>>} \cup {<<FieldAttr_Strategy(p)>> : p \in DefaultStrategies}

UserDecls ==
    {[attrs |-> sa,
      fields |-> <<[ident |-> Some("name"), ty |-> "str", attrs |-> a1],
                   [ident |-> Some("location"), ty |-> "Option", attrs |-> a2],
                   [ident |-> Some("groups"), ty |-> "Vec", attrs |-> a3]>>] :
        sa \in StructAttrLists, a1 \in FieldAttrLists("str"),
        a2 \in FieldAttrLists("Option"), a3 \in FieldAttrLists("Vec")}

TupleDecls ==
    {[attrs |-> sa,
      fields |-> <<[ident |-> None, ty |-> "Option", attrs |-> a1],
                   [ident |-> None, ty |-> "Option", attrs |-> a2]>>] :
        sa \in StructAttrLists, a1 \in FieldAttrLists("Option"),
        a2 \in FieldAttrLists("Option")}

StructDecls == UserDecls \cup TupleDecls

UserValues ==
    {[name |-> n, location |-> l, groups |-> g] :
        n \in {"", "Ferris"},
        l \in {None, Some("Internet")},
        g \in {<<>>, <<"mascot">>, <<"rust">>}}

TupleValues ==
    {[i \in 0..1 |-> IF i = 0 THEN a ELSE b] :
        a \in ValuesOf("Option"), b \in ValuesOf("Option")}

StructValues(d) == IF d \in UserDecls THEN UserValues ELSE TupleValues

----------------------------------------------------------------------------
(* The state machine: a caller constructs two values of one type and calls *)
(* one merge function on them.                                             *)

Types == IntTypes \cup {"bool", "Option", "str", "String", "Vec", "HashMap"}

\* the container types the recursive strategies are called on
RecTypes == {"Option<N>", "Option<Vec>", "HashMap<N>", "HashMap<Vec>"}

\* the values of the maps the recursive strategies are called on
MapElements(t) ==
    IF t = "N" THEN {N(1), N(2), N(U8_MAX)} ELSE {<<>>, <<1>>, <<2>>}

MapsOf(E) == UNION {[D -> E] : D \in SUBSET Keys}

NValues == {N(v) : v \in Near(0, U8_MAX)}

RecValuesOf(t) ==
    CASE t = "Option<N>" -> {None} \cup {Some(x) : x \in NValues}
      [] t = "Option<Vec>" -> {None} \cup {Some(x) : x \in ValuesOf("Vec")}
      [] t \in {"HashMap<N>", "HashMap<Vec>"} -> MapsOf(MapElements(Inner(t)))

Operands(t, d) ==
    IF t = "struct" THEN StructValues(d)
    ELSE IF t \in RecTypes THEN RecValuesOf(t)
    ELSE ValuesOf(t)

Init ==
    /\ ty \in Types \cup RecTypes \cup {"struct"}
    /\ decl \in IF ty = "struct" THEN StructDecls ELSE {NoDecl}
    /\ left \in Operands(ty, decl)
    /\ right \in Operands(ty, decl)
    /\ left0 = left
    /\ right0 = right
    /\ op = "none"
    /\ trace = <<>>
    /\ sources = <<>>
    /\ done = 0
    /\ again = 0

\* the caller's call of function `name`, which leaves `res`
Call(name, res) ==
    /\ op = "none"
    /\ op' = name
    /\ left' = res.left
    /\ right' = res.right
    /\ UNCHANGED <<ty, left0, right0, decl, sources, done, again>>

Call_Merge_merge ==
    /\ ty \in Types
    /\ Call("Merge::merge", Merge_merge(ty, left, right))
    /\ UNCHANGED trace

Call_any_overwrite ==
    /\ ty \in Types
    /\ Call("any::overwrite", any_overwrite(ty, left, right))
    /\ UNCHANGED trace

Call_any_overwrite_default ==
    /\ ty \in Types
    /\ Call("any::overwrite_default", any_overwrite_default(ty, left, right))
    /\ UNCHANGED trace

Call_any_swap ==
    /\ ty \in Types
    /\ Call("any::swap", any_swap(left, right))
    /\ UNCHANGED trace

Call_bool_overwrite_false ==
    /\ ty = "bool"
    /\ Call("bool::overwrite_false", bool_overwrite_false(left, right))
    /\ UNCHANGED trace

Call_bool_overwrite_true ==
    /\ ty = "bool"
    /\ Call("bool::overwrite_true", bool_overwrite_true(left, right))
    /\ UNCHANGED trace

Call_num_saturating_add ==
    /\ ty \in IntTypes
    /\ Call("num::saturating_add", num_saturating_add(ty, left, right))
    /\ UNCHANGED trace

Call_ord_max_def ==
    /\ ty \in IntTypes
    /\ Call("ord::max_def", ord_max_def(ty, left, right))
    /\ UNCHANGED trace

Call_ord_min_def ==
    /\ ty \in IntTypes
    /\ Call("ord::min_def", ord_min_def(ty, left, right))
    /\ UNCHANGED trace

Call_ord_max_swap ==
    /\ ty \in IntTypes
    /\ Call("ord::max_swap", ord_max_swap(left, right))
    /\ UNCHANGED trace

Call_ord_min_swap ==
    /\ ty \in IntTypes
    /\ Call("ord::min_swap", ord_min_swap(left, right))
    /\ UNCHANGED trace

Call_string_append ==
    /\ ty = "String"
    /\ Call("string::append", string_append(left, right))
    /\ UNCHANGED trace

Call_string_prepend ==
    /\ ty = "String"
    /\ Call("string::prepend", string_prepend(left, right))
    /\ UNCHANGED trace

Call_vec_append ==
    /\ ty = "Vec"
    /\ Call("vec::append", vec_append(left, right))
    /\ UNCHANGED trace

Call_vec_prepend ==
    /\ ty = "Vec"
    /\ Call("vec::prepend", vec_prepend(left, right))
    /\ UNCHANGED trace

Call_hashmap_merge ==
    /\ ty = "HashMap"
    /\ \E order \in Orders(DOMAIN right) :
           Call("hashmap::merge", hashmap_merge(left, right, order))
    /\ UNCHANGED trace

Call_hashmap_replace ==
    /\ ty = "HashMap"
    /\ \E order \in Orders(DOMAIN right) :
           Call("hashmap::replace", hashmap_replace(left, right, order))
    /\ UNCHANGED trace

Call_option_recursive ==
    /\ ty \in {"Option<N>", "Option<Vec>"}
    /\ Call("option::recursive", option_recursive(Inner(ty), left, right))
    /\ UNCHANGED trace

Call_hashmap_recursive ==
    /\ ty \in {"HashMap<N>", "HashMap<Vec>"}
    /\ \E order \in Orders(DOMAIN right) :
           Call("hashmap::recursive", hashmap_recursive(Inner(ty), left, right, order))
    /\ UNCHANGED trace

Call_hashmap_intersection ==
    /\ ty \in {"HashMap<N>", "HashMap<Vec>"}
    /\ \E order \in Orders(DOMAIN right) :
           Call("hashmap::intersection",
                hashmap_intersection(Inner(ty), left, right, order))
    /\ UNCHANGED trace

\* the merge method #[derive(Merge)] generated for the struct
Call_derived_merge ==
    /\ ty = "struct"
    /\ Call("derived", derived_merge(decl, left, right))
    /\ trace' = impl_merge(decl)

Next ==
    \/ Call_Merge_merge
    \/ Call_any_overwrite
    \/ Call_any_overwrite_default
    \/ Call_any_swap
    \/ Call_bool_overwrite_false
    \/ Call_bool_overwrite_true
    \/ Call_num_saturating_add
    \/ Call_ord_max_def
    \/ Call_ord_min_def
    \/ Call_ord_max_swap
    \/ Call_ord_min_swap
    \/ Call_string_append
    \/ Call_string_prepend
    \/ Call_vec_append
    \/ Call_vec_prepend
    \/ Call_hashmap_merge
    \/ Call_hashmap_replace
    \/ Call_option_recursive
    \/ Call_hashmap_recursive
    \/ Call_hashmap_intersection
    \/ Call_derived_merge

Spec == Init /\ [][Next]_vars

----------------------------------------------------------------------------
(* A caller that keeps the incoming object and passes it to the same       *)
(* function again: merge borrows `other` mutably and hands it back.         *)

\* the types whose default merge swaps an empty target with the incoming value
SwapTypes == {"Option", "String", "Vec", "HashMap"}

\* the function `name`, called on two values of type t
call_fn(name, t, l, r, order) ==
    CASE name = "Merge::merge" -> Merge_merge(t, l, r)
      [] name = "string::append" -> string_append(l, r)
      [] name = "string::prepend" -> string_prepend(l, r)
      [] name = "vec::append" -> vec_append(l, r)
      [] name = "vec::prepend" -> vec_prepend(l, r)
      [] name = "hashmap::merge" -> hashmap_merge(l, r, order)
      [] name = "hashmap::replace" -> hashmap_replace(l, r, order)
      [] name = "option::recursive" -> option_recursive(Inner(t), l, r)
      [] name = "hashmap::recursive" -> hashmap_recursive(Inner(t), l, r, order)
      [] name = "hashmap::intersection" -> hashmap_intersection(Inner(t), l, r, order)

\* the iteration orders of `right` if it is a map, none otherwise
OrdersOf(t, r) ==
    IF t \in {"HashMap", "HashMap<N>", "HashMap<Vec>"} THEN Orders(DOMAIN r)
    ELSE {<<>>}

RemergeInit ==
    /\ Init
    /\ ty \in SwapTypes \cup RecTypes

\* the same call once more, on the two objects as the last call left them
Call_again ==
    /\ op # "none"
    /\ again < MaxAgain
    /\ \E order \in OrdersOf(ty, right) :
           LET res == call_fn(op, ty, left, right, order)
           IN  /\ left' = res.left
               /\ right' = res.right
    /\ again' = again + 1
    /\ UNCHANGED <<ty, left0, right0, op, decl, trace, sources, done>>

RemergeNext ==
    \/ Call_Merge_merge
    \/ Call_string_append
    \/ Call_string_prepend
    \/ Call_vec_append
    \/ Call_vec_prepend
    \/ Call_hashmap_merge
    \/ Call_hashmap_replace
    \/ Call_option_recursive
    \/ Call_hashmap_recursive
    \/ Call_hashmap_intersection
    \/ Call_again

RemergeSpec == RemergeInit /\ [][RemergeNext]_vars

----------------------------------------------------------------------------
(* The layered caller of examples/args.rs: one target, the command-line    *)
(* arguments, and the values of the lower layers merged into it one after   *)
(* the other.                                                               *)

\* struct Args { #[merge(strategy = bool::overwrite_false)] debug: bool,
\*               input: Option<String>, output: Option<String> }
ArgsDecl ==
    [attrs |-> <<>>,
     fields |-> <<[ident |-> Some("debug"), ty |-> "bool",
                   attrs |-> <<FieldAttr_Strategy("bool::overwrite_false")>>],
                  [ident |-> Some("input"), ty |-> "Option", attrs |-> <<>>],
                  [ident |-> Some("output"), ty |-> "Option", attrs |-> <<>>]>>]

ArgsValues ==
    {[debug |-> d, input |-> i, output |-> o] :
        d \in BOOLEAN,
        i \in {None} \cup {Some(c) : c \in Chars},
        o \in {None} \cup {Some(c) : c \in Chars}}

\* Args::default()
ArgsDefault == [debug |-> FALSE, input |-> None, output |-> None]

FoldInit ==
    /\ ty = "struct"
    /\ decl = ArgsDecl
    /\ left \in ArgsValues
    /\ sources \in SeqsUpTo(ArgsValues, MaxSources)
    /\ left0 = left
    /\ right = ArgsDefault
    /\ right0 = ArgsDefault
    /\ op = "none"
    /\ trace = <<>>
    /\ done = 0
    /\ again = 0

\* args.merge(&mut next): the next layer is merged into the target
MergeNext ==
    /\ ty = "struct"
    /\ done < Len(sources)
    /\ LET res == derived_merge(decl, left, sources[done + 1])
       IN  /\ left' = res.left
           /\ right' = res.right
    /\ right0' = sources[done + 1]
    /\ op' = "derived"
    /\ trace' = impl_merge(decl)
    /\ done' = done + 1
    /\ UNCHANGED <<ty, left0, decl, sources, again>>

FoldNext == MergeNext

FoldSpec == FoldInit /\ [][FoldNext]_vars

----------------------------------------------------------------------------
(* What a struct declaration says, read off the attribute lists as written. *)

\* the field carries a `skip` attribute
MarkedSkip(f) == \E k \in DOMAIN f.attrs : f.attrs[k] = FieldAttr_Skip

\* the strategy paths an attribute list names
NamedStrategies(attrs) ==
    {attrs[k].path : k \in {j \in DOMAIN attrs : attrs[j].tag = "Strategy"}}

\* the member the i-th declared field is accessed by
Member(i) == IF decl.fields[i].ident = None THEN i - 1 ELSE decl.fields[i].ident.val

\* the position of the field a statement of the merge body names
Position(name) == CHOOSE i \in DOMAIN decl.fields : Member(i) = name

\* the strategy the precedence rule resolves for the i-th field
ResolvedByPrecedence(i) ==
    IF NamedStrategies(decl.fields[i].attrs) # {}
    THEN CHOOSE p \in NamedStrategies(decl.fields[i].attrs) : TRUE
    ELSE IF NamedStrategies(decl.attrs) # {}
    THEN CHOOSE p \in NamedStrategies(decl.attrs) : TRUE
    ELSE "Merge::merge"

Derived == ty = "struct" /\ op = "derived"

----------------------------------------------------------------------------
(* Claims.                                                                 *)

\* C1: the default merge of Option<T> is overwrite-if-empty:
\* merge(None, Some(x)) leaves Some(x), merge(Some(x), Some(y)) leaves Some(x),
\* merge(Some(x), None) leaves Some(x), merge(None, None) leaves None.
C1_OptionOverwriteIfEmpty ==
    (ty = "Option" /\ op = "Merge::merge") =>
        /\ (left0 = None /\ right0 # None) => left = right0
        /\ (left0 # None /\ right0 # None) => left = left0
        /\ (left0 # None /\ right0 = None) => left = left0
        /\ (left0 = None /\ right0 = None) => left = None

C1_Witness ==
    /\ ty = "Option" /\ op = "Merge::merge"
    /\ left0 # None /\ right0 # None /\ left0 # right0
    /\ left = left0

\* C2: a field marked skip keeps target's value through the derived merge,
\* whatever incoming's field holds, also when the struct declares a default
\* strategy or the field names a strategy as well.
C2_SkipUntouched ==
    Derived =>
        \A i \in DOMAIN decl.fields :
            MarkedSkip(decl.fields[i]) => left[Member(i)] = left0[Member(i)]

C2_Witness ==
    /\ Derived
    /\ NamedStrategies(decl.attrs) # {}
    /\ \E i \in DOMAIN decl.fields :
           /\ MarkedSkip(decl.fields[i])
           /\ NamedStrategies(decl.fields[i].attrs) # {}
           /\ right0[Member(i)] # left0[Member(i)]
           /\ left[Member(i)] = left0[Member(i)]

\* C3: the action on a non-skipped field is the field's own strategy if it
\* names one, else the struct's default strategy if it declares one, else the
\* field type's Merge::merge.
C3_StrategyPrecedence ==
    Derived =>
        \A i \in DOMAIN decl.fields :
            ~MarkedSkip(decl.fields[i]) =>
                LET n == Member(i)
                    res == call_path(ResolvedByPrecedence(i), decl.fields[i].ty,
                                     left0[n], right0[n])
                IN  /\ \E k \in DOMAIN trace :
                          trace[k] = [call |-> ResolvedByPrecedence(i), name |-> n]
                    /\ left[n] = res.left
                    /\ right[n] = res.right

C3_Witness ==
    /\ Derived
    /\ NamedStrategies(decl.attrs) = {"any::overwrite"}
    /\ \E i, j \in DOMAIN decl.fields :
           /\ ~MarkedSkip(decl.fields[i]) /\ ~MarkedSkip(decl.fields[j])
           /\ NamedStrategies(decl.fields[i].attrs) = {"any::swap"}
           /\ NamedStrategies(decl.fields[j].attrs) = {}
           /\ left0[Member(i)] # None /\ right[Member(i)] = left0[Member(i)]
           /\ left0[Member(j)] # right0[Member(j)] /\ left[Member(j)] = right0[Member(j)]

\* C4: the derived merge runs one statement per non-skipped field and none
\* for a skipped one, each field once, in declaration order; the value a field
\* ends with depends on that field's two values alone; and the User example of
\* the crate documentation yields {"Ferris", Some("Internet"), ["mascot","rust"]}.
C4_OneActionPerFieldInOrder ==
    Derived =>
        /\ \A k \in DOMAIN trace :
               /\ \E i \in DOMAIN decl.fields : Member(i) = trace[k].name
               /\ ~MarkedSkip(decl.fields[Position(trace[k].name)])
        /\ \A k, m \in DOMAIN trace :
               k < m => Position(trace[k].name) < Position(trace[m].name)
        /\ Len(trace) = Cardinality({i \in DOMAIN decl.fields : ~MarkedSkip(decl.fields[i])})
        /\ \A i \in DOMAIN decl.fields :
               LET n == Member(i)
               IN  IF MarkedSkip(decl.fields[i])
                   THEN left[n] = left0[n] /\ right[n] = right0[n]
                   ELSE \E k \in DOMAIN trace :
                           LET res == call_path(trace[k].call, decl.fields[i].ty,
                                                left0[n], right0[n])
                           IN  /\ trace[k].name = n
                               /\ left[n] = res.left
                               /\ right[n] = res.right
        /\ ( /\ decl.attrs = <<>>
             /\ Len(decl.fields) = 3
             /\ decl.fields[1] = [ident |-> Some("name"), ty |-> "str",
                                   attrs |-> <<FieldAttr_Skip>>]
             /\ decl.fields[2] = [ident |-> Some("location"), ty |-> "Option",
                                   attrs |-> <<>>]
             /\ decl.fields[3] = [ident |-> Some("groups"), ty |-> "Vec",
                                   attrs |-> <<FieldAttr_Strategy("vec::append")>>]
             /\ left0 = [name |-> "Ferris", location |-> None, groups |-> <<"mascot">>]
             /\ right0 = [name |-> "", location |-> Some("Internet"),
                          groups |-> <<"rust">>]
             => left = [name |-> "Ferris", location |-> Some("Internet"),
                        groups |-> <<"mascot", "rust">>] )

C4_Witness ==
    /\ Derived
    /\ decl \in UserDecls
    /\ decl.attrs = <<>>
    /\ decl.fields[1].attrs = <<FieldAttr_Skip>>
    /\ decl.fields[2].attrs = <<>>
    /\ decl.fields[3].attrs = <<FieldAttr_Strategy("vec::append")>>
    /\ trace = <<[call |-> "Merge::merge", name |-> "location"],
                 [call |-> "vec::append", name |-> "groups"]>>
    /\ left0 = [name |-> "Ferris", location |-> None, groups |-> <<"mascot">>]
    /\ right0 = [name |-> "", location |-> Some("Internet"), groups |-> <<"rust">>]
    /\ left = [name |-> "Ferris", location |-> Some("Internet"),
               groups |-> <<"mascot", "rust">>]

\* C5: vec::append(a, b) leaves target equal to a ++ b, of length
\* len(a) + len(b), also when a or b is empty.
C5_VecAppendConcatenates ==
    (ty = "Vec" /\ op = "vec::append") =>
        /\ Len(left) = Len(left0) + Len(right0)
        /\ \A i \in 1..Len(left0) : left[i] = left0[i]
        /\ \A i \in 1..Len(right0) : left[Len(left0) + i] = right0[i]

C5_Witness ==
    /\ ty = "Vec" /\ op = "vec::append"
    /\ Len(left0) = 2 /\ Len(right0) = 1 /\ right0[1] # left0[2]
    /\ Len(left) = 3

\* C6: hashmap::merge and hashmap::replace leave target with the union of the
\* two key sets, target's value for a key only target had and incoming's for
\* a key only incoming had; for a key both had, merge keeps target's value
\* and replace takes incoming's.
C6_HashMapUnionPrecedence ==
    (ty = "HashMap" /\ op \in {"hashmap::merge", "hashmap::replace"}) =>
        /\ DOMAIN left = DOMAIN left0 \cup DOMAIN right0
        /\ \A k \in DOMAIN left0 \ DOMAIN right0 : left[k] = left0[k]
        /\ \A k \in DOMAIN right0 \ DOMAIN left0 : left[k] = right0[k]
        /\ \A k \in DOMAIN left0 \cap DOMAIN right0 :
               left[k] = IF op = "hashmap::merge" THEN left0[k] ELSE right0[k]

C6_Witness ==
    /\ ty = "HashMap" /\ op = "hashmap::merge"
    /\ \E k \in DOMAIN left0 \cap DOMAIN right0 :
           left0[k] # right0[k] /\ left[k] = left0[k]
    /\ DOMAIN right0 \ DOMAIN left0 # {}

\* C7: num::saturating_add sets target to target + incoming clamped to the
\* type's range: for u8 the result is min(target + incoming, 2^8 - 1), so
\* saturating_add(MAX, 1) is MAX and the sum never wraps around.
C7_SaturatingAddClamps ==
    (ty \in IntTypes /\ op = "num::saturating_add") =>
        LET sum == left0 + right0
        IN  /\ ty = "u8" => left = (IF sum < 2^8 - 1 THEN sum ELSE 2^8 - 1)
            /\ ty = "u8" => left >= left0
            /\ ty = "i8" => left = (IF sum > 2^7 - 1 THEN 2^7 - 1
                                    ELSE IF sum < -(2^7) THEN -(2^7) ELSE sum)
            /\ (left0 = MaxOf(ty) /\ right0 = 1) => left = MaxOf(ty)

C7_Witness ==
    /\ ty = "u8" /\ op = "num::saturating_add"
    /\ left0 = U8_MAX /\ right0 = 1 /\ left = U8_MAX

\* C8: ord max replaces target with incoming iff incoming is strictly greater,
\* ord min iff incoming is strictly less; a tie keeps target, and target ends
\* as the maximum (minimum) of the two values.
C8_OrdMaxMin ==
    /\ (ty \in IntTypes /\ op \in {"ord::max_def", "ord::max_swap"}) =>
           /\ right0 > left0 => left = right0
           /\ ~(right0 > left0) => (left = left0 /\ right = right0)
           /\ left >= left0 /\ left >= right0 /\ left \in {left0, right0}
    /\ (ty \in IntTypes /\ op \in {"ord::min_def", "ord::min_swap"}) =>
           /\ right0 < left0 => left = right0
           /\ ~(right0 < left0) => (left = left0 /\ right = right0)
           /\ left <= left0 /\ left <= right0 /\ left \in {left0, right0}

C8_Witness ==
    /\ ty \in IntTypes /\ op = "ord::max_def"
    /\ right0 > left0 /\ left = right0 /\ left0 # 0

\* C9 as stated: every default implementation of Merge, the primitive ones
\* included, keeps target unless target is the type's empty/default value, and
\* then target adopts incoming.
C9_Original_AllDefaultsOverwriteIfEmpty ==
    (ty \in Types /\ op = "Merge::merge") =>
        left = (IF left0 = Default(ty) THEN right0 ELSE left0)

\* C9 as amended: the default implementations for Option, &str, String, Vec
\* and HashMap keep target unless it is empty, and then target adopts incoming;
\* the implementations for the primitive numeric and boolean types keep target
\* always, also when it is the type's default value.
C9_DefaultsOverwriteIfEmptyExceptPrimitives ==
    (ty \in Types /\ op = "Merge::merge") =>
        IF ty \in IntTypes \cup {"bool"}
        THEN left = left0
        ELSE left = (IF left0 = Default(ty) THEN right0 ELSE left0)

C9_Witness ==
    /\ ty = "Vec" /\ op = "Merge::merge"
    /\ left0 = <<>> /\ Len(right0) = 2 /\ left = right0

\* C10: the default merge of a primitive numeric or boolean value leaves
\* target as it was, for every target and incoming; so merge(v, v) leaves v.
C10_PrimitiveMergeIsIdentity ==
    (ty \in IntTypes \cup {"bool"} /\ op = "Merge::merge") =>
        /\ left = left0
        /\ right = right0

C10_Witness ==
    /\ ty = "u8" /\ op = "Merge::merge"
    /\ left0 = 0 /\ right0 = U8_MAX /\ left = 0

\* C11: the default merge of a String, a Vec and a HashMap is whole-value
\* overwrite-if-empty: an empty target becomes exactly incoming; a non-empty
\* target is unchanged and nothing of incoming is merged into it.
C11_ContainersOverwriteIfEmpty ==
    (ty \in {"String", "Vec", "HashMap"} /\ op = "Merge::merge") =>
        LET empty == IF ty = "HashMap" THEN DOMAIN left0 = {} ELSE Len(left0) = 0
        IN  /\ empty => left = right0
            /\ ~empty => (left = left0 /\ right = right0)

C11_Witness ==
    /\ ty = "String" /\ op = "Merge::merge"
    /\ Len(left0) = 1 /\ Len(right0) = 2
    /\ left = left0

\* C12: bool::overwrite_false sets target to incoming iff target is false (the
\* result is target OR incoming), bool::overwrite_true sets target to incoming
\* iff target is true (the result is target AND incoming); otherwise target is
\* unchanged.
C12_BoolOverwrite ==
    /\ (ty = "bool" /\ op = "bool::overwrite_false") =>
           /\ left = (left0 \/ right0)
           /\ left = (IF left0 = FALSE THEN right0 ELSE left0)
    /\ (ty = "bool" /\ op = "bool::overwrite_true") =>
           /\ left = (left0 /\ right0)
           /\ left = (IF left0 = TRUE THEN right0 ELSE left0)

C12_Witness ==
    /\ ty = "bool" /\ op = "bool::overwrite_true"
    /\ left0 = TRUE /\ right0 = FALSE /\ left = FALSE

\* the value x ends with when the element type's own merge merges y into it
MergedElement(t, x, y) ==
    IF t = "N" THEN N(IF x[0] + y[0] < U8_MAX THEN x[0] + y[0] ELSE U8_MAX)
    ELSE IF Len(x) = 0 THEN y ELSE x

\* C13: option::recursive: with incoming Some(y), a None target becomes
\* Some(y) and a Some(x) target becomes Some(x') with x' = x after the inner
\* type's own merge with y; with incoming None, target is unchanged.
C13_OptionRecursive ==
    (ty \in {"Option<N>", "Option<Vec>"} /\ op = "option::recursive") =>
        /\ (right0 # None /\ left0 = None) => left = right0
        /\ (right0 # None /\ left0 # None) =>
               left = Some(MergedElement(Inner(ty), left0.val, right0.val))
        /\ right0 = None => left = left0

C13_Witness ==
    /\ ty = "Option<N>" /\ op = "option::recursive"
    /\ left0 = Some(N(1)) /\ right0 = Some(N(2)) /\ left = Some(N(3))

\* C14: hashmap::recursive leaves target with the union of the two key sets;
\* a key only one input had keeps that input's value; for a key both had, the
\* value is target's value after the value type's own merge with incoming's.
C14_HashMapRecursive ==
    (ty \in {"HashMap<N>", "HashMap<Vec>"} /\ op = "hashmap::recursive") =>
        /\ DOMAIN left = DOMAIN left0 \cup DOMAIN right0
        /\ \A k \in DOMAIN left0 \ DOMAIN right0 : left[k] = left0[k]
        /\ \A k \in DOMAIN right0 \ DOMAIN left0 : left[k] = right0[k]
        /\ \A k \in DOMAIN left0 \cap DOMAIN right0 :
               left[k] = MergedElement(Inner(ty), left0[k], right0[k])

C14_Witness ==
    /\ ty = "HashMap<N>" /\ op = "hashmap::recursive"
    /\ DOMAIN left0 = {1} /\ DOMAIN right0 = {1, 2}
    /\ left0[1] = N(1) /\ right0[1] = N(2) /\ left[1] = N(3)

\* C15: hashmap::intersection never changes target's key set: a key only
\* target had keeps its value, a key only incoming had is not added, and for
\* a key both had the value is target's value after the value type's own
\* merge with incoming's.
C15_HashMapIntersection ==
    (ty \in {"HashMap<N>", "HashMap<Vec>"} /\ op = "hashmap::intersection") =>
        /\ DOMAIN left = DOMAIN left0
        /\ \A k \in DOMAIN left0 \ DOMAIN right0 : left[k] = left0[k]
        /\ \A k \in DOMAIN left0 \cap DOMAIN right0 :
               left[k] = MergedElement(Inner(ty), left0[k], right0[k])

C15_Witness ==
    /\ ty = "HashMap<N>" /\ op = "hashmap::intersection"
    /\ DOMAIN left0 = {1} /\ DOMAIN right0 = {1, 2}
    /\ left0[1] = N(1) /\ right0[1] = N(2) /\ left[1] = N(3)
    /\ DOMAIN left = {1}

\* C16: string::append leaves target = target ++ incoming; string::prepend and
\* vec::prepend leave target = incoming ++ target; the length is the sum of
\* both lengths and an empty operand leaves the other operand as the result.
C16_AppendPrepend ==
    /\ (ty = "String" /\ op = "string::append") => left = left0 \o right0
    /\ (ty = "String" /\ op = "string::prepend") => left = right0 \o left0
    /\ (ty = "Vec" /\ op = "vec::prepend") =>
           /\ \A i \in 1..Len(right0) : left[i] = right0[i]
           /\ \A i \in 1..Len(left0) : left[Len(right0) + i] = left0[i]
    /\ (op \in {"string::append", "string::prepend", "vec::prepend"}) =>
           /\ Len(left) = Len(left0) + Len(right0)
           /\ Len(left0) = 0 => left = right0
           /\ Len(right0) = 0 => left = left0

C16_Witness ==
    /\ ty = "String" /\ op = "string::prepend"
    /\ left0 = "a" /\ right0 = "bb" /\ left = "bba"

\* C17: any::overwrite and any::swap both leave target equal to the original
\* incoming, for every pair; they differ in incoming afterwards: the type's
\* default after overwrite, the original target after swap.
C17_OverwriteAndSwap ==
    /\ (ty \in Types /\ op = "any::overwrite") =>
           left = right0 /\ right = Default(ty)
    /\ (ty \in Types /\ op = "any::swap") =>
           left = right0 /\ right = left0

C17_Witness ==
    /\ ty = "u8" /\ op = "any::overwrite"
    /\ left0 = 1 /\ right0 = 2 /\ left = 2 /\ right = 0

\* C18: any::overwrite_default: a target equal to the type's default value
\* becomes incoming's value; any other target is unchanged, and so is
\* incoming; also when incoming is the default.
C18_OverwriteDefault ==
    (ty \in Types /\ op = "any::overwrite_default") =>
        /\ left0 = Default(ty) => left = right0
        /\ left0 # Default(ty) => (left = left0 /\ right = right0)

C18_Witness ==
    /\ ty = "u8" /\ op = "any::overwrite_default"
    /\ left0 = 1 /\ right0 = 0 /\ left = 1 /\ right = 0

\* the values field f held in the target and in the layers merged so far
Layers(f) == <<left0[f]>> \o [i \in 1..done |-> sources[i][f]]

\* the first of them that is not None, or None
FirstNonEmpty(f) ==
    LET c == Layers(f)
        full == {i \in DOMAIN c : c[i] # None}
    IN  IF full = {} THEN None
        ELSE c[CHOOSE i \in full : \A j \in full : i <= j]

OptionFields == {"input", "output"}

C19_HoldsFirstNonEmpty == \A f \in OptionFields : left[f] = FirstNonEmpty(f)

C19_SomeIsKept == \A f \in OptionFields : left[f] # None => left'[f] = left[f]

\* C19: when a target is merged with s1, ..., sn by repeated merge calls, each
\* field with the default Option merge holds the first non-empty value in the
\* order (target, s1, ..., sn), or None if all are empty; once such a field is
\* Some no later merge changes it; each field follows the rule by itself.
C19_LayeredFold == [](C19_HoldsFirstNonEmpty) /\ [][C19_SomeIsKept]_vars

C19_Witness ==
    /\ done = 2
    /\ left0.input = None /\ sources[1].input = None /\ sources[2].input = Some("a")
    /\ left0.output = Some("b") /\ sources[1].output = Some("a")
    /\ left.input = Some("a") /\ left.output = Some("b")

\* the statements of the merge body, taken in the order p
Permuted(p) == [i \in DOMAIN trace |-> trace[p[i]]]

\* C20: the result of a derived merge does not depend on the order in which
\* the fields are processed: running the per-field statements in any
\* permutation leaves the same target and the same incoming value as running
\* them in declaration order.
C20_FieldOrderIndependent ==
    Derived =>
        \A p \in Orders(DOMAIN trace) :
            run_assignments(Permuted(p), decl.fields, left0, right0) = LR(left, right)

C20_Witness ==
    /\ Derived
    /\ decl \in UserDecls
    /\ Len(trace) = 3
    /\ left.name # left0.name
    /\ left.location # left0.location
    /\ left.groups # left0.groups
    /\ run_assignments(Permuted(<<3, 1, 2>>), decl.fields, left0, right0) = LR(left, right)

StringStrategies == {"string::append", "string::prepend"}
VecStrategies == {"vec::append", "vec::prepend"}
MapStrategies == {"hashmap::merge", "hashmap::replace",
                  "hashmap::recursive", "hashmap::intersection"}

\* C21: the concatenating and map strategies always leave the incoming value
\* drained: after vec::append, vec::prepend, string::append, string::prepend,
\* hashmap::merge, hashmap::replace, hashmap::recursive and
\* hashmap::intersection the incoming container is empty, and after
\* option::recursive the incoming value is None, on every branch; no element
\* is in both operands: a concatenation holds exactly the elements of the two
\* inputs, and no key is left in the incoming map.
C21_IncomingDrained ==
    /\ op \in StringStrategies \cup VecStrategies =>
           /\ is_empty(right)
           /\ Len(left) + Len(right) = Len(left0) + Len(right0)
    /\ op \in MapStrategies =>
           /\ map_is_empty(right)
           /\ DOMAIN left \cap DOMAIN right = {}
    /\ op = "option::recursive" => right = None

C21_Witness ==
    /\ op = "vec::append"
    /\ left0 = <<>>
    /\ right0 # <<>>
    /\ left = right0
    /\ right = <<>>

C22_SecondCallKeepsTarget == again' = again + 1 => left' = left

\* C22: merging the same incoming object again is a no-op for the draining
\* operations: for the default Option, String, Vec and HashMap merges and for
\* vec::append, vec::prepend, string::append, string::prepend, hashmap::merge,
\* hashmap::replace, hashmap::recursive, hashmap::intersection and
\* option::recursive, a second call with the same incoming object right after
\* the first leaves the target exactly as the first call left it.
C22_RemergeIsNoOp == [][C22_SecondCallKeepsTarget]_vars

C22_Witness ==
    /\ again = 1
    /\ op = "option::recursive"
    /\ ty = "Option<N>"
    /\ left0 = Some(N(1))
    /\ right0 = Some(N(2))
    /\ left = Some(N(3))
    /\ right = None

====
